---------------------------- MODULE Spec2Model ----------------------------
(***************************************************************************)
(* Cost-formula estimators of the CryptographicEstimators library:         *)
(*   - F5       (MQEstimator/MQAlgorithms/f5.py)                           *)
(*   - PEProblem (PEEstimator/pe_problem.py)                               *)
(*   - OJ1, OJ2 (RSDEstimator/RSDAlgorithms/ourivski_johansson_{1,2}.py)   *)
(*                                                                         *)
(* Number representation.  Every complexity the code returns is a base-2   *)
(* logarithm built from log2 of positive integers, sums, integer multiples *)
(* and max.  The model carries the antilogarithm 2^x of such a value x:    *)
(*     log2(a)            is carried as  a                                 *)
(*     x + y              is carried as  X * Y                             *)
(*     c * x (c integer)  is carried as  X ^ c                             *)
(*     max(x, y)          is carried as  Max(X, Y)                         *)
(*     x <= y             is decided as  X <= Y                            *)
(* which is exact because x |-> 2^x is a strictly increasing bijection.    *)
(* log2 of a non-positive number raises ValueError in Python; the model    *)
(* raises the same error where the code takes such a logarithm.            *)
(***************************************************************************)
EXTENDS Integers, Sequences, FiniteSets

\* ------------------------------------------------------------------ bounds
MaxN == 4          \* MQ: number of variables n ranges over 1..MaxN
MaxM == 4          \* MQ: number of polynomials m ranges over 1..MaxM
MaxNsol == 1       \* MQ: nsolutions (log2 of the number of solutions) in 0..MaxNsol
MaxH == 2          \* F5: hybridization parameter h in 0..MaxH
MaxPEN == 3        \* PE: code length n ranges over -1..MaxPEN
MaxPEK == 3        \* PE: code dimension k ranges over -1..MaxPEK
MaxOps == 1        \* PE: basic_operations / elements_to_store in 0..MaxOps
MaxK == 3          \* RSD: dimension k ranges over 0..MaxK
MaxR == 3          \* RSD: target rank r ranges over 1..MaxR
MaxExt == 5        \* RSD: extension degree m ranges over 1..MaxExt

FieldSizes == {2, 3}            \* field sizes q used for the MQ problems
LinearAlgebraConstants == {2, 3} \* integer values of w inside 2 <= w <= 3

\* ------------------------------------------------------------------ values
None == << >>
Some(v) == << v >>

Max(a, b) == IF a >= b THEN a ELSE b
Min(a, b) == IF a <= b THEN a ELSE b

RECURSIVE Pow(_, _)
Pow(b, e) == IF e <= 0 THEN 1 ELSE b * Pow(b, e - 1)

\* [2]*k of Python: the empty list for k <= 0
RECURSIVE Twos(_)
Twos(k) == IF k <= 0 THEN << >> ELSE Append(Twos(k - 1), 2)

\* what a call gave back: a value (as its antilogarithm) or the error raised
Value(v) == [kind |-> "value", val |-> v]
Raise(e) == [kind |-> e, val |-> 0]
NoCall == [kind |-> "none", val |-> 0]
Underdefined == "ValueError: The input system cannot be underdefined"
MathDomain == "ValueError: math domain error"

VARIABLES
    problem,     \* the MQProblem bound to the F5 instance: [n, m, q, nsolutions]
    f5,          \* "new" (not constructed), "constructed", "error" (constructor raised)
    kwargs,      \* the keyword arguments F5 was constructed with: [h, w, degrees]
    _h, _w,      \* MQAlgorithm fields (0 before the construction)
    _degrees,    \* F5._degrees
    _dreg,       \* F5._dreg : None or Some(degree of regularity)
    _ncols,      \* F5._ncols: None or Some(number of columns)
    ndreg,       \* how many times degree_of_regularity.quadratic_system was evaluated
    nncols,      \* how many times NMonomialSeries.nmonomials_of_degree was evaluated
    lastCall,    \* the hook called last ("none" before any call)
    usedNcols,   \* the column count the last hook computed with (None if it took none)
    ret,         \* per hook, what its latest call gave back
    pe,          \* PEProblem: "new", "constructed", "error" (constructor raised)
    peArgs,      \* the arguments PEProblem was constructed with: [n, k, q, h, nsolutions]
    parameters,  \* PEProblem.parameters: None or Some([n, k, q, h])
    nsolutions,  \* PEProblem.nsolutions: None or Some(antilogarithm as a fraction)
    peLast,      \* the PEProblem accessor called last and what it gave back
    oj           \* the latest OJ1/OJ2 memory computation: inputs, intermediates, result

f5vars == << problem, f5, kwargs, _h, _w, _degrees, _dreg, _ncols, ndreg, nncols,
             lastCall, usedNcols, ret >>
pevars == << pe, peArgs, parameters, nsolutions, peLast >>
vars == << f5vars, pevars, oj >>

Hooks == {"time", "memory", "tilde_o_time", "tilde_o_memory"}

\* ------------------------------------------------- MQProblem / MQAlgorithm
\* MQProblem.is_underdefined_system: more variables than polynomials
is_underdefined_system(p) == p.n > p.m

\* MQAlgorithm.get_reduced_parameters: an underdefined system of m equations in
\* n variables is reduced to a square one with m - floor(n/m) + 1 equations
\* (Thomae-Wolf); the h guessed variables are then removed.
get_reduced_parameters(p, h) ==
    LET alpha == p.n \div p.m
        mr == IF is_underdefined_system(p)
              THEN (IF p.m - alpha + 1 < p.m THEN p.m - alpha + 1 ELSE p.m)
              ELSE p.m
        nr == IF is_underdefined_system(p) THEN mr ELSE p.n
    IN  [n |-> nr - h, m |-> mr, q |-> p.q]

npolynomials_reduced(p, h) == get_reduced_parameters(p, h).m

\* NMonomialSeries.nmonomials_of_degree: the coefficient of z^d in
\* (1 - z^q)^n / (1 - z)^n = (1 + z + ... + z^(q-1))^n
RECURSIVE NMonomialsSum(_, _, _, _)
RECURSIVE nmonomials_of_degree(_, _, _)
NMonomialsSum(q, n, d, e) ==
    IF e < 0 THEN 0
    ELSE nmonomials_of_degree(q, n - 1, d - e) + NMonomialsSum(q, n, d, e - 1)
nmonomials_of_degree(q, n, d) ==
    IF d < 0 THEN 0
    ELSE IF n = 0 THEN (IF d = 0 THEN 1 ELSE 0)
    ELSE NMonomialsSum(q, n, d, Min(q - 1, d))

\* coefficient of z^j in (1 - z^2) / (1 - z^(2q))
InverseQuadricCoefficient(q, j) ==
    IF j % (2 * q) = 0 THEN 1 ELSE IF j % (2 * q) = 2 THEN -1 ELSE 0

\* coefficient of z^d in the Hilbert series of m generic quadrics in n
\* variables over GF(q): (1+z+...+z^(q-1))^n * ((1 - z^2)/(1 - z^(2q)))^m
RECURSIVE HilbertSum(_, _, _, _, _)
RECURSIVE HilbertCoefficient(_, _, _, _)
HilbertSum(n, m, q, d, j) ==
    IF j < 0 THEN 0
    ELSE (IF InverseQuadricCoefficient(q, j) = 0 THEN 0
          ELSE InverseQuadricCoefficient(q, j) * HilbertCoefficient(n, m - 1, q, d - j))
         + HilbertSum(n, m, q, d, j - 1)
HilbertCoefficient(n, m, q, d) ==
    IF m = 0 THEN nmonomials_of_degree(q, n, d) ELSE HilbertSum(n, m, q, d, d)

\* degree_of_regularity.quadratic_system: index of the first non-positive
\* coefficient of the Hilbert series
RECURSIVE FirstNonPositive(_, _, _, _)
FirstNonPositive(n, m, q, d) ==
    IF HilbertCoefficient(n, m, q, d) <= 0 THEN d ELSE FirstNonPositive(n, m, q, d + 1)
quadratic_system(n, m, q) == FirstNonPositive(n, m, q, 0)


\* ---------------------------------------------------------------------- F5
\* the F5 instance as the methods see it
Self == [problem |-> problem, h |-> _h, w |-> _w, dreg |-> _dreg, ncols |-> _ncols,
         ndreg |-> ndreg, nncols |-> nncols]

\* the keyword arguments MQAlgorithm.__init__ accepts for problem p:
\* 0 <= h with at least one variable left after guessing, 2 <= w <= 3
AdmissibleH(p) == {h \in 0..MaxH : get_reduced_parameters(p, h).n >= 1}

\* the degree lists tried: absent (None), all-2 lists and lists led by a 3
DegreeLists ==
    {None} \cup {Some(Twos(l)) : l \in 0..(MaxM + 1)}
           \cup {Some(<< 3 >> \o Twos(l - 1)) : l \in 1..(MaxM + 1)}

\* F5.__init__, the check of the degrees list: the list given (or the default
\* [2]*m) is compared with m = problem.npolynomials()
InitDegreesAccepted(p, kw) ==
    LET m == p.m
        degrees == IF kw.degrees = None THEN Twos(m) ELSE kw.degrees[1]
    IN  Len(degrees) = m

\* F5.__init__, the value given to self._degrees
InitDegrees(p, kw) ==
    LET m == p.m
        degrees == IF kw.degrees = None THEN Twos(m) ELSE kw.degrees[1]
    IN  IF degrees = Twos(m) THEN Twos(npolynomials_reduced(p, kw.h)) ELSE degrees

\* F5.degree_of_polynomials
degree_of_polynomials == _degrees[1]

\* F5._get_degree_of_regularity: the instance after the call (the call returns
\* its dreg field)
_get_degree_of_regularity(self) ==
    IF self.dreg = None
    THEN LET r == get_reduced_parameters(self.problem, self.h)
         IN  [self EXCEPT !.dreg = Some(quadratic_system(r.n, r.m, r.q)),
                          !.ndreg = @ + 1]
    ELSE self

\* variant of _get_number_of_columns_at_degree_of_regularity without the
\* "is None" test: the column count is computed and stored on every call
Mutant_ncols_without_sentinel(self) ==
    LET r == get_reduced_parameters(self.problem, self.h)
        s == _get_degree_of_regularity(self)
    IN  [s EXCEPT !.ncols = Some(nmonomials_of_degree(r.q, r.n, s.dreg[1])),
                  !.nncols = @ + 1]

\* F5._get_number_of_columns_at_degree_of_regularity: the instance after the
\* call (the call returns its ncols field)
_get_number_of_columns_at_degree_of_regularity(self) ==
    IF self.ncols = None
    THEN LET r == get_reduced_parameters(self.problem, self.h)
             s == _get_degree_of_regularity(self)
         IN  [s EXCEPT !.ncols = Some(nmonomials_of_degree(r.q, r.n, s.dreg[1])),
                       !.nncols = @ + 1]
    ELSE self

\* a hook's result: the instance after the call, what the call gave back and
\* the column count it computed with
Result(self, out, used) == [self |-> self, out |-> out, used |-> used]

\* F5._time_complexity_fglm: h*log2(q) + log2(n * D^3), D = 2^nsolutions
_time_complexity_fglm(self) ==
    LET r == get_reduced_parameters(self.problem, self.h)
        D == Pow(2, self.problem.nsolutions)
    IN  IF r.n * Pow(D, 3) <= 0 THEN Raise(MathDomain)
        ELSE Value(Pow(r.q, self.h) * (r.n * Pow(D, 3)))

\* variant of _compute_time_complexity that tests for an underdefined system
\* only after it has taken the column count
Mutant_time_checks_late(self) ==
    LET r == get_reduced_parameters(self.problem, self.h)
        s == _get_number_of_columns_at_degree_of_regularity(self)
        ncols == s.ncols[1]
        fglm == _time_complexity_fglm(s)
    IN  IF is_underdefined_system(self.problem) THEN Result(s, Raise(Underdefined), None)
        ELSE IF ncols <= 0 \/ r.m <= 0 THEN Result(s, Raise(MathDomain), s.ncols)
        ELSE IF fglm.kind # "value" THEN Result(s, fglm, s.ncols)
        ELSE Result(s, Value(Pow(r.q, s.h)
                             * Max(Pow(ncols, s.w) * r.m, fglm.val)), s.ncols)

\* F5._compute_time_complexity
_compute_time_complexity(self) ==
    IF is_underdefined_system(self.problem)
    THEN Result(self, Raise(Underdefined), None)
    ELSE LET r == get_reduced_parameters(self.problem, self.h)
             s == _get_number_of_columns_at_degree_of_regularity(self)
             ncols == s.ncols[1]
             fglm == _time_complexity_fglm(s)
         IN  IF ncols <= 0 \/ r.m <= 0 THEN Result(s, Raise(MathDomain), s.ncols)
             ELSE IF fglm.kind # "value" THEN Result(s, fglm, s.ncols)
             ELSE Result(s, Value(Pow(r.q, s.h)
                                  * Max(Pow(ncols, s.w) * r.m, fglm.val)), s.ncols)

\* variant of _compute_memory_complexity that takes the smaller of the two
\* terms
Mutant_memory_min(self) ==
    LET r == get_reduced_parameters(self.problem, self.h)
        s == _get_number_of_columns_at_degree_of_regularity(self)
        ncols == s.ncols[1]
    IN  IF ncols <= 0 \/ r.m * r.n * r.n <= 0 THEN Result(s, Raise(MathDomain), s.ncols)
        ELSE Result(s, Value(Min(Pow(ncols, 2), r.m * r.n * r.n)), s.ncols)

\* variant of _compute_memory_complexity that writes the squared column count
\* back into the memo field
Mutant_memory_overwrites_ncols(self) ==
    LET r == get_reduced_parameters(self.problem, self.h)
        s == _get_number_of_columns_at_degree_of_regularity(self)
        ncols == s.ncols[1]
        t == [s EXCEPT !.ncols = Some(Pow(ncols, 2))]
    IN  IF ncols <= 0 \/ r.m * r.n * r.n <= 0 THEN Result(t, Raise(MathDomain), s.ncols)
        ELSE Result(t, Value(Max(Pow(ncols, 2), r.m * r.n * r.n)), s.ncols)

\* F5._compute_memory_complexity
_compute_memory_complexity(self) ==
    LET r == get_reduced_parameters(self.problem, self.h)
        s == _get_number_of_columns_at_degree_of_regularity(self)
        ncols == s.ncols[1]
    IN  IF ncols <= 0 \/ r.m * r.n * r.n <= 0 THEN Result(s, Raise(MathDomain), s.ncols)
        ELSE Result(s, Value(Max(Pow(ncols, 2), r.m * r.n * r.n)), s.ncols)

\* F5._tilde_o_time_complexity_fglm: h*log2(q) + log2(D^3)
_tilde_o_time_complexity_fglm(self) ==
    LET q == self.problem.q
        D == Pow(2, self.problem.nsolutions)
    IN  Value(Pow(q, self.h) * Pow(D, 3))

\* F5._compute_tilde_o_time_complexity
_compute_tilde_o_time_complexity(self) ==
    IF is_underdefined_system(self.problem)
    THEN Result(self, Raise(Underdefined), None)
    ELSE LET q == self.problem.q
             s == _get_number_of_columns_at_degree_of_regularity(self)
             ncols == s.ncols[1]
         IN  IF ncols <= 0 THEN Result(s, Raise(MathDomain), s.ncols)
             ELSE Result(s, Value(Pow(q, s.h)
                                  * Max(Pow(ncols, s.w),
                                        _tilde_o_time_complexity_fglm(s).val)), s.ncols)

\* F5._compute_tilde_o_memory_complexity
_compute_tilde_o_memory_complexity(self) ==
    LET s == _get_number_of_columns_at_degree_of_regularity(self)
        ncols == s.ncols[1]
    IN  IF ncols <= 0 THEN Result(s, Raise(MathDomain), s.ncols)
        ELSE Result(s, Value(Pow(ncols, 2)), s.ncols)

\* the MQ problems an F5 instance is bound to: the reduction leaves at least
\* one equation
MQProblems ==
    {p \in [n : 1..MaxN, m : 1..MaxM, q : FieldSizes, nsolutions : 0..MaxNsol] :
        npolynomials_reduced(p, 0) >= 1}

KwargsFor(p) ==
    {[h |-> h, w |-> w, degrees |-> degrees] :
        h \in AdmissibleH(p), w \in LinearAlgebraConstants, degrees \in DegreeLists}

NoKwargs == [h |-> 0, w |-> 0, degrees |-> None]

InitF5 ==
    /\ problem \in MQProblems
    /\ f5 = "new"
    /\ kwargs = NoKwargs
    /\ _h = 0 /\ _w = 0 /\ _degrees = None
    /\ _dreg = None /\ _ncols = None
    /\ ndreg = 0 /\ nncols = 0
    /\ lastCall = "none"
    /\ usedNcols = None
    /\ ret = [a \in Hooks |-> NoCall]

\* F5(problem, **kw) when the constructor raises
ConstructRaises ==
    /\ f5 = "new"
    /\ \E kw \in KwargsFor(problem) :
          /\ ~InitDegreesAccepted(problem, kw)
          /\ kwargs' = kw
    /\ f5' = "error"
    /\ UNCHANGED << problem, _h, _w, _degrees, _dreg, _ncols, ndreg, nncols,
                    lastCall, usedNcols, ret >>
    /\ UNCHANGED << pevars, oj >>

\* F5(problem, **kw) when the constructor returns an instance
Construct ==
    /\ f5 = "new"
    /\ \E kw \in KwargsFor(problem) :
          /\ InitDegreesAccepted(problem, kw)
          /\ kwargs' = kw
          /\ _h' = kw.h
          /\ _w' = kw.w
          /\ _degrees' = Some(InitDegrees(problem, kw))
    /\ f5' = "constructed"
    /\ _dreg' = None /\ _ncols' = None
    /\ UNCHANGED << problem, ndreg, nncols, lastCall, usedNcols, ret >>
    /\ UNCHANGED << pevars, oj >>

\* one call of a hook on the constructed instance
Call(hook, res) ==
    /\ f5 = "constructed"
    /\ _dreg' = res.self.dreg
    /\ _ncols' = res.self.ncols
    /\ ndreg' = res.self.ndreg
    /\ nncols' = res.self.nncols
    /\ lastCall' = hook
    /\ usedNcols' = res.used
    /\ ret' = [ret EXCEPT ![hook] = res.out]
    /\ UNCHANGED << problem, f5, kwargs, _h, _w, _degrees >>
    /\ UNCHANGED << pevars, oj >>

TimeComplexity == Call("time", _compute_time_complexity(Self))
MemoryComplexity == Call("memory", _compute_memory_complexity(Self))
TildeOTimeComplexity == Call("tilde_o_time", _compute_tilde_o_time_complexity(Self))
TildeOMemoryComplexity == Call("tilde_o_memory", _compute_tilde_o_memory_complexity(Self))

NextF5 ==
    \/ ConstructRaises
    \/ Construct
    \/ TimeComplexity
    \/ MemoryComplexity
    \/ TildeOTimeComplexity
    \/ TildeOMemoryComplexity


\* --------------------------------------------------------------- PEProblem
\* a logarithm log2(num/den) with num, den > 0, carried as the fraction
Frac(num, den) == [num |-> num, den |-> den]
\* what a PEProblem method gave back: the value val + log2(log2(loglog)), or
\* the error raised (log2(log2(2)) = 0, so loglog = 2 adds nothing)
PEValue(val, loglog) == [kind |-> "value", val |-> val, loglog |-> loglog]
PERaise(e) == [kind |-> e, val |-> Frac(1, 1), loglog |-> 2]
PENoCall == [kind |-> "none", val |-> Frac(1, 1), loglog |-> 2]
\* x >= 0 for x = log2(num/den)
NonNegative(x) == x.num >= x.den
\* max(x, 0)
MaxZero(x) == IF NonNegative(x) THEN x ELSE Frac(1, 1)
\* an integer s of the log scale as a fraction: 2^s
Exp2(s) == IF s >= 0 THEN Frac(Pow(2, s), 1) ELSE Frac(1, Pow(2, -s))

RECURSIVE factorial(_)
factorial(n) == IF n <= 0 THEN 1 ELSE n * factorial(n - 1)

PEFieldSizes == 0..3
PEArgs ==
    [n : (-1)..MaxPEN, k : (-1)..MaxPEK, q : PEFieldSizes,
     h : {None, Some(0)}, nsolutions : {None, Some(-1), Some(0), Some(1)}]

\* PEProblem.expected_number_solutions on parameters [n, k, q, h]:
\* log2(q)*k*k + log2(factorial(n)) - log2(q)*n*k = log2(n! * q^(k*k - n*k))
expected_number_solutions(prm) ==
    LET e == prm.k * prm.k - prm.n * prm.k
    IN  IF prm.q <= 0 THEN PERaise(MathDomain)
        ELSE IF prm.n < 0
        THEN PERaise("ValueError: factorial() not defined for negative values")
        ELSE PEValue(Frac(factorial(prm.n) * Pow(prm.q, e), Pow(prm.q, -e)), 2)

\* PEProblem.to_bitcomplexity_time: basic_operations + log2(log2(q))
to_bitcomplexity_time(prm, basic_operations) ==
    IF prm.q <= 0 THEN PERaise(MathDomain)         \* log2(q)
    ELSE IF prm.q = 1 THEN PERaise(MathDomain)     \* log2(log2(1)) = log2(0)
    ELSE PEValue(Exp2(basic_operations), prm.q)

\* PEProblem.to_bitcomplexity_memory: elements_to_store + log2(log2(q))
to_bitcomplexity_memory(prm, elements_to_store) ==
    IF prm.q <= 0 THEN PERaise(MathDomain)
    ELSE IF prm.q = 1 THEN PERaise(MathDomain)
    ELSE PEValue(Exp2(elements_to_store), prm.q)

\* PEProblem.__init__, the parameters stored
InitParameters(a) ==
    [n |-> a.n, k |-> a.k, q |-> a.q,
     h |-> IF a.h = None THEN Min(a.n, a.n - a.k) ELSE a.h[1]]

\* PEProblem.__init__, the default of nsolutions, which kwargs.get evaluates
\* whether or not nsolutions is given: max(expected_number_solutions(), 0)
InitDefaultNsolutions(a) ==
    LET x == expected_number_solutions(InitParameters(a))
    IN  IF x.kind = "value" THEN PEValue(MaxZero(x.val), 2) ELSE x

\* PEProblem.__init__, the value given to self.nsolutions
InitNsolutions(a) ==
    IF a.nsolutions = None THEN InitDefaultNsolutions(a).val ELSE Exp2(a.nsolutions[1])

NoArgs == [n |-> 0, k |-> 0, q |-> 0, h |-> None, nsolutions |-> None]
NoAccess == [call |-> "none", out |-> PENoCall]

InitPE ==
    /\ pe = "new"
    /\ peArgs = NoArgs
    /\ parameters = None
    /\ nsolutions = None
    /\ peLast = NoAccess

\* PEProblem(n, k, q, **kwargs) when the constructor raises
PEConstructRaises ==
    /\ pe = "new"
    /\ \E a \in PEArgs :
          /\ InitDefaultNsolutions(a).kind # "value"
          /\ peArgs' = a
    /\ pe' = "error"
    /\ UNCHANGED << parameters, nsolutions, peLast >>
    /\ UNCHANGED << f5vars, oj >>

\* PEProblem(n, k, q, **kwargs) when the constructor returns a problem
PEConstruct ==
    /\ pe = "new"
    /\ \E a \in PEArgs :
          /\ InitDefaultNsolutions(a).kind = "value"
          /\ peArgs' = a
          /\ parameters' = Some(InitParameters(a))
          /\ nsolutions' = Some(InitNsolutions(a))
    /\ pe' = "constructed"
    /\ UNCHANGED peLast
    /\ UNCHANGED << f5vars, oj >>

PEAccess(call, out) ==
    /\ pe = "constructed"
    /\ peLast' = [call |-> call, out |-> out]
    /\ UNCHANGED << pe, peArgs, parameters, nsolutions >>
    /\ UNCHANGED << f5vars, oj >>

PEToBitcomplexityTime ==
    \E ops \in 0..MaxOps :
        PEAccess("to_bitcomplexity_time", to_bitcomplexity_time(parameters[1], ops))
PEToBitcomplexityMemory ==
    \E ops \in 0..MaxOps :
        PEAccess("to_bitcomplexity_memory", to_bitcomplexity_memory(parameters[1], ops))
PEExpectedNumberSolutions ==
    PEAccess("expected_number_solutions", expected_number_solutions(parameters[1]))

NextPE ==
    \/ PEConstructRaises
    \/ PEConstruct
    \/ PEToBitcomplexityTime
    \/ PEToBitcomplexityMemory
    \/ PEExpectedNumberSolutions

\* ---------------------------------------------------------------- OJ1 / OJ2
\* variant of ceil that rounds down
Mutant_floor(a, b) ==
    IF b > 0 THEN a \div b ELSE (-a) \div (-b)

\* math.ceil(a / b) for integers a, b: ZeroDivisionError is raised by a / b
\* when b = 0 and is handled by the callers below
ceil(a, b) ==
    IF b > 0 THEN -((-a) \div b) ELSE -(a \div (-b))

RSDParameters == [q : {2}, m : 1..MaxExt, n : {MaxExt}, k : 0..MaxK, r : 1..MaxR]

ZeroDivision == "ZeroDivisionError: division by zero"

Memory(alg, prm, cm, n_rows, n_columns) ==
    [alg |-> alg, prm |-> prm, cm |-> cm, n_rows |-> n_rows, n_columns |-> n_columns,
     out |-> IF n_rows * n_columns <= 0 THEN Raise(MathDomain)
             ELSE Value(n_rows * n_columns)]
MemoryRaises(alg, prm, e) ==
    [alg |-> alg, prm |-> prm, cm |-> 0, n_rows |-> 0, n_columns |-> 0, out |-> Raise(e)]

\* OJ1._compute_memory_complexity
OJ1_compute_memory_complexity(prm) ==
    LET m == prm.m
        k == prm.k
        r == prm.r
    IN  IF m - 1 = 0 THEN MemoryRaises("OJ1", prm, ZeroDivision)
        ELSE LET cm == ceil((r - 1) * m + k + 1, m - 1)
                 n_rows == cm * m
                 n_columns == (r - 1) * m + k + cm + 1
             IN  Memory("OJ1", prm, cm, n_rows, n_columns)

\* OJ2._compute_memory_complexity
OJ2_compute_memory_complexity(prm) ==
    LET m == prm.m
        k == prm.k
        r == prm.r
    IN  IF m - r = 0 THEN MemoryRaises("OJ2", prm, ZeroDivision)
        ELSE LET cm == ceil((k + 1) * r, m - r)
                 n_rows == cm * m
                 n_columns == (k + 1 + cm) * r
             IN  Memory("OJ2", prm, cm, n_rows, n_columns)

NoMemory == MemoryRaises("none", [q |-> 0, m |-> 0, n |-> 0, k |-> 0, r |-> 0], "none")

InitRSD == oj = NoMemory

OJ1MemoryComplexity ==
    /\ \E prm \in RSDParameters : oj' = OJ1_compute_memory_complexity(prm)
    /\ UNCHANGED << f5vars, pevars >>
OJ2MemoryComplexity ==
    /\ \E prm \in RSDParameters : oj' = OJ2_compute_memory_complexity(prm)
    /\ UNCHANGED << f5vars, pevars >>

NextRSD ==
    \/ OJ1MemoryComplexity
    \/ OJ2MemoryComplexity

\* ----------------------------------------------------------- specifications
\* the state of an F5 instance that no specification below constructs
IdleF5 ==
    /\ problem = [n |-> 1, m |-> 1, q |-> 2, nsolutions |-> 0]
    /\ InitF5

\* the F5 estimator: an MQ problem, one F5 construction, any calls of its hooks
InitSpecF5 == InitF5 /\ InitPE /\ InitRSD
SpecF5 == InitSpecF5 /\ [][NextF5]_vars

\* the PE problem: one construction, any calls of its accessors
InitSpecPE == IdleF5 /\ InitPE /\ InitRSD
SpecPE == InitSpecPE /\ [][NextPE]_vars

\* the OJ1 and OJ2 memory computations
InitSpecRSD == IdleF5 /\ InitPE /\ InitRSD
SpecRSD == InitSpecRSD /\ [][NextRSD]_vars

\* ------------------------------------------------------------------- claims
ReducedCount == npolynomials_reduced(problem, kwargs.h)
Reduced == get_reduced_parameters(problem, _h)

\* C1: F5 with a degrees list is constructed only when the list's length is
\* the reduced equation count, and after every construction
\* len(degree_of_polynomials()) is the reduced equation count.
C1_DegreesLengthIsReducedCount ==
    f5 = "constructed" =>
        /\ kwargs.degrees # None => Len(kwargs.degrees[1]) = ReducedCount
        /\ Len(degree_of_polynomials) = ReducedCount

\* C2: on an underdefined MQ problem each of the four computations (time,
\* memory, soft-O time, soft-O memory) raises an error and returns no value.
C2_UnderdefinedAlwaysRaises ==
    \A a \in Hooks :
        is_underdefined_system(problem) /\ ret[a] # NoCall => ret[a].kind # "value"

\* C3: PEProblem with k > n, q < 2 or a non-positive dimension is refused by
\* the constructor: no such problem is constructed, and no accessor of a
\* constructed problem raises.  (k = 0 is not counted as refused here: the
\* problem invariant 0 <= k <= n admits it.)
InvalidPEArgs(a) == a.k > a.n \/ a.q < 2 \/ a.n <= 0 \/ a.k < 0
C3_InvalidPERefusedAtConstruction ==
    pe = "constructed" =>
        /\ ~InvalidPEArgs(peArgs)
        /\ peLast.out.kind \in {"none", "value"}

\* C4: whenever a classical hook and its soft-O hook have both returned a
\* value, the soft-O value is at most the classical one (time and memory).
C4_SoftONeverExceedsClassical ==
    /\ ret["time"].kind = "value" /\ ret["tilde_o_time"].kind = "value"
          => ret["tilde_o_time"].val <= ret["time"].val
    /\ ret["memory"].kind = "value" /\ ret["tilde_o_memory"].kind = "value"
          => ret["tilde_o_memory"].val <= ret["memory"].val
\* both pairs have returned, the classical values strictly larger
C4_Witness ==
    /\ ret["time"].kind = "value" /\ ret["tilde_o_time"].kind = "value"
    /\ ret["memory"].kind = "value" /\ ret["tilde_o_memory"].kind = "value"
    /\ ret["tilde_o_time"].val < ret["time"].val
    /\ ret["tilde_o_memory"].val < ret["memory"].val
    /\ _h > 0

\* C5: the classical time is h*log2(q) + max(w*log2(ncols) + log2(m),
\* log2(n*D^3)), D = 2^nsolutions, (n, m, q) reduced: the hybridization term
\* is counted once.
C5_ClassicalTimeFormula ==
    ret["time"].kind = "value" =>
        ret["time"].val =
            Pow(Reduced.q, _h)
            * Max(Pow(_ncols[1], _w) * Reduced.m,
                  Reduced.n * Pow(Pow(2, problem.nsolutions), 3))

\* C6: over any calls of the four hooks the degree of regularity and the
\* column count are each computed at most once, a memo field that is set
\* never changes, and each hook computes with the memoized column count.
C6_MemoComputedOnce ==
    [][ /\ _dreg # None => _dreg' = _dreg
        /\ _ncols # None => _ncols' = _ncols
        /\ ndreg' <= 1 /\ nncols' <= 1
        /\ usedNcols' # None => usedNcols' = _ncols' ]_vars
\* both memo fields computed once and used by classical and soft-O hooks
C6_Witness ==
    /\ ndreg = 1 /\ nncols = 1
    /\ ret["time"].kind = "value" /\ ret["memory"].kind = "value"
    /\ ret["tilde_o_time"].kind = "value" /\ ret["tilde_o_memory"].kind = "value"

\* what a hook gives on the instance with both memo fields unset
OnEmptyCache(a) ==
    LET fresh == [Self EXCEPT !.dreg = None, !.ncols = None]
    IN  CASE a = "time" -> _compute_time_complexity(fresh).out
          [] a = "memory" -> _compute_memory_complexity(fresh).out
          [] a = "tilde_o_time" -> _compute_tilde_o_time_complexity(fresh).out
          [] a = "tilde_o_memory" -> _compute_tilde_o_memory_complexity(fresh).out

\* C7: whatever hooks were called before and in whatever order, what a hook
\* gave back at its latest call is what it gives on the instance with an
\* empty cache; so successive calls of a hook give the same value.
C7_AccessorsIdempotent ==
    f5 = "constructed" => \A a \in Hooks : ret[a] # NoCall => ret[a] = OnEmptyCache(a)
\* the time hook returned a value from a cache another hook had filled
C7_Witness ==
    /\ lastCall = "time" /\ ret["time"].kind = "value"
    /\ ret["memory"].kind = "value" /\ ret["tilde_o_memory"].kind = "value"
    /\ _ncols # None /\ _ncols[1] > 1

\* C8: every constructed PEProblem has nsolutions >= 0, and when nsolutions
\* is not given it is max(expected_number_solutions(), 0).  (Stated for the
\* arguments with 0 <= k <= n, n >= 1, q >= 2, which every reading of the
\* constructor's contract accepts.)
C8_NsolutionsNonNegative ==
    pe = "constructed" /\ ~InvalidPEArgs(peArgs) =>
        /\ NonNegative(nsolutions[1])
        /\ peArgs.nsolutions = None =>
              nsolutions[1] = MaxZero(expected_number_solutions(parameters[1]).val)

\* C9: for k >= 0, r >= 1 and m >= 2 (OJ1), m > r (OJ2): cm >= 1,
\* n_rows = cm*m >= n_columns >= 1, and log2(n_rows*n_columns) is defined
\* and non-negative.
InOJDomain ==
    /\ oj.prm.k >= 0 /\ oj.prm.r >= 1
    /\ \/ oj.alg = "OJ1" /\ oj.prm.m >= 2
       \/ oj.alg = "OJ2" /\ oj.prm.m > oj.prm.r
C9_MatrixHasRowsForColumns ==
    InOJDomain =>
        /\ oj.cm >= 1
        /\ oj.n_rows = oj.cm * oj.prm.m
        /\ oj.n_rows >= oj.n_columns
        /\ oj.n_columns >= 1
        /\ oj.out.kind = "value" /\ oj.out.val >= 1
\* an OJ2 computation whose quotient is rounded up
C9_Witness ==
    /\ InOJDomain /\ oj.alg = "OJ2"
    /\ ((oj.prm.k + 1) * oj.prm.r) % (oj.prm.m - oj.prm.r) # 0
    /\ oj.cm >= 2

\* C10: a call of the classical or soft-O time hook that raises the
\* underdefined-system error leaves both memo fields as they were, and once
\* the hook has raised that error each later call of it raises it again.
TimeHooks == {"time", "tilde_o_time"}
C10_FailedTimeCallLeavesInstance ==
    [][ \A a \in TimeHooks :
          /\ lastCall' = a /\ ret'[a].kind = Underdefined
                => _dreg' = _dreg /\ _ncols' = _ncols
          /\ ret[a].kind = Underdefined => ret'[a].kind = Underdefined ]_vars
\* the time hook raised on an instance whose cache a memory hook had filled,
\* and on one whose cache is empty
C10_Witness ==
    /\ lastCall = "time" /\ ret["time"].kind = Underdefined
    /\ ret["tilde_o_time"].kind = Underdefined
    /\ ret["memory"] # NoCall /\ _ncols # None

=============================================================================
